---- MODULE Spec2Model ----
(***************************************************************************)
(* Volunteer Hub (src/app.py): a Streamlit script that is re-run from top  *)
(* to bottom on every page load and interaction.  One run loads the data   *)
(* file, reads the `id` and `page` query parameters, and renders either    *)
(* the detail view or the paginated card grid.  Navigation is a change of  *)
(* the URL's query string followed by a fresh run.                         *)
(*                                                                         *)
(* Text is modelled as a sequence of one-character strings, so that        *)
(* formatting (str, f-strings, html.escape) and parsing (the browser's     *)
(* handling of an href, parse_qs, int) are computed, not assumed.          *)
(* Only the record fields the views branch on or transform are kept (`id`  *)
(* and `description`); title, location, timeframe, organization_url and    *)
(* requirements are copied to the markup and decide nothing.               *)
(***************************************************************************)
EXTENDS Integers, Sequences, FiniteSets, TLC

\* ---------------------------------------------------------------- bounds
\* The largest number of records in the data file.
MaxRecords == 19

\* ------------------------------------------------------ program constants
PAGE_SIZE == 9
\* The excerpt length of a card (the literal 120 of short_desc).
ExcerptLen == 120

\* ------------------------------------------------------------------ text
\* Python's None, and the value of a query parameter that is absent.  No
\* text equals it: every element of a text is a single character.
None == <<"<None>">>

Digits == <<"0", "1", "2", "3", "4", "5", "6", "7", "8", "9">>
IsDigit(c) == \E d \in 1..10 : Digits[d] = c
DigitVal(c) == (CHOOSE d \in 1..10 : Digits[d] = c) - 1

\* str(n) of an integer n >= 0, as the f-strings and str() produce it.
RECURSIVE ToDec(_)
ToDec(n) ==
  IF n < 10 THEN <<Digits[n + 1]>>
  ELSE ToDec(n \div 10) \o <<Digits[(n % 10) + 1]>>

\* The index of the first c in s, or 0.
IndexOf(s, c) ==
  IF \E i \in 1..Len(s) : s[i] = c
  THEN CHOOSE i \in 1..Len(s) : s[i] = c /\ \A j \in 1..(i - 1) : s[j] # c
  ELSE 0

\* s.split(sep): the text before the separator at i (0: there is none),
\* then the pieces of the rest.
RECURSIVE SplitOn(_, _)
SplitAt(s, sep, i) ==
  IF i = 0 THEN <<s>>
  ELSE <<SubSeq(s, 1, i - 1)>> \o SplitOn(SubSeq(s, i + 1, Len(s)), sep)
SplitOn(s, sep) == SplitAt(s, sep, IndexOf(s, sep))

\* s.strip() (the whitespace of the model's alphabet is the space)
RECURSIVE Strip(_)
Strip(s) ==
  IF s = <<>> THEN s
  ELSE IF s[1] = " " THEN Strip(Tail(s))
  ELSE IF s[Len(s)] = " " THEN Strip(SubSeq(s, 1, Len(s) - 1))
  ELSE s

\* The value of a run of digits and underscores.
RECURSIVE DecValue(_, _)
DecValue(s, acc) ==
  IF s = <<>> THEN acc
  ELSE IF s[1] = "_" THEN DecValue(Tail(s), acc)
  ELSE DecValue(Tail(s), acc * 10 + DigitVal(s[1]))

\* int(s): surrounding whitespace is stripped, one sign is allowed, then
\* digits with single underscores between them.  ok = FALSE is ValueError.
WellFormedInt(body) ==
  /\ body # <<>>
  /\ \A i \in 1..Len(body) : IsDigit(body[i]) \/ body[i] = "_"
  /\ IsDigit(body[1]) /\ IsDigit(body[Len(body)])
  /\ \A i \in 1..(Len(body) - 1) : ~(body[i] = "_" /\ body[i + 1] = "_")

ParseSigned(sign, body) ==
  IF ~WellFormedInt(body) THEN [ok |-> FALSE, val |-> 0]
  ELSE [ok |-> TRUE, val |-> sign * DecValue(body, 0)]

ParseStripped(t) ==
  IF t # <<>> /\ t[1] \in {"+", "-"}
  THEN ParseSigned(IF t[1] = "-" THEN 0 - 1 ELSE 1, Tail(t))
  ELSE ParseSigned(1, t)

ParseInt(s) == ParseStripped(Strip(s))

\* html.escape(s, quote=True)
EscapeChar(c) ==
  CASE c = "&" -> <<"&", "a", "m", "p", ";">>
    [] c = "<" -> <<"&", "l", "t", ";">>
    [] c = ">" -> <<"&", "g", "t", ";">>
    [] c = "\"" -> <<"&", "q", "u", "o", "t", ";">>
    [] c = "'" -> <<"&", "#", "x", "2", "7", ";">>
    [] OTHER -> <<c>>

\* Each character is rewritten on its own, so the text is escaped by halves
\* (the evaluation stays shallow on long descriptions).
RECURSIVE HtmlEscape(_)
HtmlEscape(s) ==
  IF s = <<>> THEN <<>>
  ELSE IF Len(s) = 1 THEN EscapeChar(s[1])
  ELSE LET h == Len(s) \div 2
       IN HtmlEscape(SubSeq(s, 1, h)) \o HtmlEscape(SubSeq(s, h + 1, Len(s)))

\* ------------------------------------------------------- the URL's query
\* The text of a Python literal, one character per element.
S_ID == <<"i", "d">>
S_PAGE == <<"p", "a", "g", "e">>
S_ELLIPSIS == <<".", ".", ".">>

\* The markup writes the link as href='...': the attribute's value ends at
\* the first single quote of what the f-string put between the quotes.
Before(s, i) == IF i = 0 THEN s ELSE SubSeq(s, 1, i - 1)
AttrValue(s) == Before(s, IndexOf(s, "'"))

\* A space of the link is sent as %20.
RECURSIVE BrowserEncode(_)
BrowserEncode(s) ==
  IF s = <<>> THEN <<>>
  ELSE (IF s[1] = " " THEN <<"%", "2", "0">> ELSE <<s[1]>>)
         \o BrowserEncode(Tail(s))

\* Following a link "?query#fragment" on the page: the query string the
\* next run of the script is given.
NoFragment(v) == Before(v, IndexOf(v, "#"))
NoQuestionMark(v) == IF v # <<>> /\ v[1] = "?" THEN Tail(v) ELSE v
NavQuery(href) == BrowserEncode(NoQuestionMark(NoFragment(AttrValue(href))))

\* The percent escapes of the characters of the model's alphabet.
PercentChar(a, b) ==
  CASE <<a, b>> = <<"2", "0">> -> <<" ">>
    [] <<a, b>> = <<"2", "3">> -> <<"#">>
    [] <<a, b>> = <<"2", "5">> -> <<"%">>
    [] <<a, b>> = <<"2", "6">> -> <<"&">>
    [] <<a, b>> = <<"2", "7">> -> <<"'">>
    [] <<a, b>> = <<"2", "B">> -> <<"+">>
    [] <<a, b>> = <<"3", "D">> -> <<"=">>
    [] OTHER -> <<"%", a, b>>

\* The decoding parse_qs applies to a name and to a value: '+' is a space,
\* then %XX is the character it encodes.
RECURSIVE Unquote(_)
Unquote(s) ==
  IF s = <<>> THEN <<>>
  ELSE IF s[1] = "+" THEN <<" ">> \o Unquote(Tail(s))
  ELSE IF s[1] = "%" /\ Len(s) >= 3
    THEN PercentChar(s[2], s[3]) \o Unquote(SubSeq(s, 4, Len(s)))
  ELSE <<s[1]>> \o Unquote(Tail(s))

\* One "name=value" piece of the query: split at the first '=', a piece
\* without '=' has the empty value (blank values are kept).
PairAt(piece, i) ==
  IF i = 0 THEN <<Unquote(piece), <<>>>>
  ELSE <<Unquote(SubSeq(piece, 1, i - 1)),
         Unquote(SubSeq(piece, i + 1, Len(piece)))>>
ParsePair(piece) == PairAt(piece, IndexOf(piece, "="))

\* st.query_params of a run: the <<name, value>> pairs of the query string
\* in order, empty pieces skipped.
RECURSIVE PairsOf(_)
PairsOf(pieces) ==
  IF pieces = <<>> THEN <<>>
  ELSE (IF pieces[1] = <<>> THEN <<>> ELSE <<ParsePair(pieces[1])>>)
         \o PairsOf(Tail(pieces))

ParseQs(q) == PairsOf(SplitOn(q, "&"))

\* st.query_params.get_all(name)
RECURSIVE GetAll(_, _)
GetAll(params, name) ==
  IF params = <<>> THEN <<>>
  ELSE (IF params[1][1] = name THEN <<params[1][2]>> ELSE <<>>)
         \o GetAll(Tail(params), name)

\* st.query_params.get(name): the last value, or None
LastOf(vals) == IF vals = <<>> THEN None ELSE vals[Len(vals)]

\* qp_get(name, default): the first value when there is one; otherwise
\* `v or default`, where an empty text counts as false.
FirstOr(vals, v, default) ==
  IF vals # <<>> THEN vals[1]
  ELSE IF v = None \/ v = <<>> THEN default ELSE v
qp_get(params, name, default) ==
  FirstOr(GetAll(params, name), LastOf(GetAll(params, name)), default)

\* ------------------------------------------------------------ pagination
Min(a, b) == IF a < b THEN a ELSE b
Max(a, b) == IF a > b THEN a ELSE b

\* math.ceil(a / b) for a >= 0, b > 0 (the float quotient is exact here)
CeilDiv(a, b) == IF a % b = 0 THEN a \div b ELSE (a \div b) + 1

\* A variant that rounds down (total // PAGE_SIZE).
TotalPagesFloor(total) == Max(1, total \div PAGE_SIZE)
\* max(1, math.ceil(total / PAGE_SIZE))
TotalPages(total) == Max(1, CeilDiv(total, PAGE_SIZE))

\* A variant with the lower bound 0: min(total_pages, max(0, current_page)).
ClampFromZero(tp, page) == Min(tp, Max(0, page))
\* max(1, min(total_pages, current_page))
Clamp(tp, page) == Max(1, Min(tp, page))

\* The page number of a run: int(page_param), 1 when the parameter is
\* absent or int raises, then clamped.
IntOr(parsed, default) == IF parsed.ok THEN parsed.val ELSE default
CurrentPage(page_param, tp) ==
  Clamp(tp, IF page_param = None THEN 1 ELSE IntOr(ParseInt(page_param), 1))

\* Python's s[start:stop] (0-based, stop excluded, both clipped to s; a
\* negative bound counts from the end)
Slice(s, start, stop) ==
  LET n == Len(s)
      lo == IF start < 0 THEN Max(n + start, 0) ELSE Min(start, n)
      hi == IF stop < 0 THEN Max(n + stop, 0) ELSE Min(stop, n)
  IN SubSeq(s, lo + 1, hi)

\* A variant whose slice ends one early: ops[start:start+PAGE_SIZE-1].
PageItemsShort(records, page) ==
  Slice(records, (page - 1) * PAGE_SIZE, page * PAGE_SIZE - 1)
\* ops[start:start+PAGE_SIZE] with start = (current_page - 1) * PAGE_SIZE
PageItems(records, page) ==
  Slice(records, (page - 1) * PAGE_SIZE, (page - 1) * PAGE_SIZE + PAGE_SIZE)

\* ------------------------------------------------------------- list view
\* A variant that cuts the escaped text: html.escape(op.description)[:120].
ShortDescEscapeFirst(description) ==
  Slice(HtmlEscape(description), 0, ExcerptLen)
    \o (IF Len(description) > ExcerptLen THEN S_ELLIPSIS ELSE <<>>)
\* html.escape(op.description[:120]) + ("..." if len(op.description)>120 else "")
ShortDesc(description) ==
  HtmlEscape(Slice(description, 0, ExcerptLen))
    \o (IF Len(description) > ExcerptLen THEN S_ELLIPSIS ELSE <<>>)

\* f"?id={op.id}&page={current_page}" between the quotes of href='...'
CardHref(o, page) ==
  <<"?">> \o S_ID \o <<"=">> \o o.id \o <<"&">> \o S_PAGE \o <<"=">> \o ToDec(page)

\* A variant that is off by one: f"?page={p+1}".
PageHrefNext(p) == <<"?">> \o S_PAGE \o <<"=">> \o ToDec(p + 1)
\* f"?page={p}"
PageHref(p) == <<"?">> \o S_PAGE \o <<"=">> \o ToDec(p)

\* One card of the grid: its link and its excerpt.
Card(o, page) == [href |-> CardHref(o, page), short_desc |-> ShortDesc(o.description)]

\* One control of the pagination footer: class 'page-num active' or 'page-num'.
FooterLink(p, page) == [p |-> p, href |-> PageHref(p), active |-> (p = page)]

\* ------------------------------------------------------------- data file
\* Opportunity.from_dict(d): d["id"] raises KeyError when the key is
\* missing; every other field has a default.
from_dict(d) ==
  IF d.hasId THEN [ok |-> TRUE, op |-> [id |-> d.id, description |-> d.description]]
  ELSE [ok |-> FALSE, op |-> [id |-> None, description |-> <<>>]]

\* A variant without the os.path.exists check: open() raises on an absent
\* file.
load_opportunitiesUnguarded(f) ==
  IF ~f.exists \/ \E i \in 1..Len(f.raw) : ~from_dict(f.raw[i]).ok
  THEN [raised |-> TRUE, ops |-> <<>>, messages |-> {}]
  ELSE [raised |-> FALSE,
        ops |-> [i \in 1..Len(f.raw) |-> from_dict(f.raw[i]).op],
        messages |-> {}]
\* load_opportunities(): the error message and [] when the file is absent;
\* otherwise every element through from_dict, whose exception is not caught.
load_opportunities(f) ==
  IF ~f.exists
  THEN [raised |-> FALSE, ops |-> <<>>, messages |-> {"Data file not found"}]
  ELSE IF \E i \in 1..Len(f.raw) : ~from_dict(f.raw[i]).ok
  THEN [raised |-> TRUE, ops |-> <<>>, messages |-> {}]
  ELSE [raised |-> FALSE,
        ops |-> [i \in 1..Len(f.raw) |-> from_dict(f.raw[i]).op],
        messages |-> {}]

\* next((o for o in ops if o.id == selected_id), None)
NoOp == [id |-> None, description |-> <<>>]
FindOp(records, sid) ==
  IF \E i \in 1..Len(records) : records[i].id = sid
  THEN records[CHOOSE i \in 1..Len(records) :
                 /\ records[i].id = sid
                 /\ \A j \in 1..(i - 1) : records[j].id # sid]
  ELSE NoOp

\* `if selected_id:` - None and the empty text are false
Truthy(v) == v # None /\ v # <<>>

\* ------------------------------------------------------ one run of app.py
\* What one top-to-bottom run of the script leaves on the screen, given the
\* data file and the URL's query string.  view is "list" (grid and footer),
\* "detail", "notfound" (both with the Back button), or "aborted" when an
\* uncaught exception ended the run before any view was drawn.
Aborted ==
  [view |-> "aborted", messages |-> {}, ops |-> <<>>, total_pages |-> 0,
   selected_id |-> None, current_page |-> 0, op |-> NoOp,
   page_items |-> <<>>, cards |-> <<>>, footer |-> <<>>, back_button |-> FALSE]

\* What every view shares: the module-level names of the run.
Common(loaded, tp, sid, cp) ==
  [Aborted EXCEPT !.ops = loaded.ops, !.total_pages = tp, !.selected_id = sid,
                  !.current_page = cp, !.messages = loaded.messages]

\* A variant without the `op is None` branch: op.title raises on None.
DetailViewUnchecked(base, found) ==
  IF found = NoOp THEN Aborted
  ELSE [base EXCEPT !.view = "detail", !.op = found, !.back_button = TRUE]
\* DETAIL VIEW: the record found, or the not-found message; the Back button
\* in both branches.
DetailView(base, found) ==
  IF found = NoOp
  THEN [base EXCEPT !.view = "notfound", !.back_button = TRUE,
                    !.messages = base.messages \cup {"Opportunity not found."}]
  ELSE [base EXCEPT !.view = "detail", !.op = found, !.back_button = TRUE]

\* GRID + PAGINATION VIEW
ListView(base, items) ==
  [base EXCEPT !.view = "list", !.page_items = items,
     !.cards = [i \in 1..Len(items) |-> Card(items[i], base.current_page)],
     !.footer = [p \in 1..base.total_pages |-> FooterLink(p, base.current_page)]]

\* `if selected_id:` ... `else:`
Dispatch(base) ==
  IF Truthy(base.selected_id)
  THEN DetailView(base, FindOp(base.ops, base.selected_id))
  ELSE ListView(base, PageItems(base.ops, base.current_page))

\* selected_id, page_param and current_page of the run
Route(loaded, tp, sid, page_param) ==
  Dispatch(Common(loaded, tp, sid, CurrentPage(page_param, tp)))

Run(loaded, params) ==
  IF loaded.raised THEN Aborted
  ELSE Route(loaded, TotalPages(Len(loaded.ops)),
             qp_get(params, S_ID, None), qp_get(params, S_PAGE, None))

Script(f, q) == Run(load_opportunities(f), ParseQs(q))

\* The query string the Back button leaves:
\* st.query_params.clear(); st.query_params.from_dict({"page": str(current_page)})
BackQuery(page) == S_PAGE \o <<"=">> \o ToDec(page)

\* ------------------------------------------------ the inputs of the model
\* The description of the i-th record of a data file: among the first
\* records, lengths on both sides of the excerpt length, with characters
\* html.escape rewrites at and next to the cut; short ones after them.
Filled(len, marks) == [k \in 1..len |-> IF k \in DOMAIN marks THEN marks[k] ELSE "x"]
DescOf(i) ==
  CASE i = 1 -> Filled(50, <<>>)
    [] i = 2 -> Filled(ExcerptLen, (ExcerptLen :> "<"))
    [] i = 3 -> Filled(ExcerptLen + 1, (ExcerptLen :> "<") @@ ((ExcerptLen + 1) :> ">"))
    [] i = 4 -> Filled(ExcerptLen + 30, (1 :> "&"))
    [] i = 5 -> <<>>
    [] i = 6 -> Filled(ExcerptLen - 1, <<>>)
    [] i % 3 = 0 -> <<"a", "<", "b">>
    [] i % 3 = 1 -> <<"'", "\"">>
    [] OTHER -> <<"x", "y">>

\* The `id` of the i-th record, by the kind of file.  "plain": distinct
\* identifiers of letters and digits.  "dup": identifiers that repeat.
\* "marked": distinct identifiers that hold characters with a meaning in a
\* link or a query string, and one empty identifier.
IdOf(kind, i) ==
  LET r == <<"r">> \o ToDec(i)
  IN CASE kind = "dup" -> <<"r">> \o ToDec((i % 3) + 1)
       [] kind = "marked" /\ i % 8 = 1 -> ToDec(i) \o <<"&">> \o S_PAGE \o <<"=", "2">>
       [] kind = "marked" /\ i % 8 = 2 -> <<"a", "#">> \o ToDec(i)
       [] kind = "marked" /\ i % 8 = 3 -> <<"a", "+">> \o ToDec(i)
       [] kind = "marked" /\ i % 8 = 4 -> <<"o", "'">> \o ToDec(i)
       [] kind = "marked" /\ i % 8 = 5 -> r \o <<"%", "2", "6">>
       [] kind = "marked" /\ i % 8 = 6 -> <<"r">> \o ToDec(i + 1) \o <<"#">>
       [] kind = "marked" /\ i % 8 = 0 ->
            IF i = 8 THEN <<>> ELSE <<"r", " ">> \o ToDec(i)
       [] OTHER -> r

\* A data file of n records; in a "noid" file the middle record has no `id`.
DataFile(kind, n) ==
  [exists |-> TRUE,
   raw |-> [i \in 1..n |->
             [hasId |-> ~(kind = "noid" /\ i = (n + 1) \div 2),
              id |-> IdOf(kind, i),
              description |-> DescOf(i)]]]

NoFile == [exists |-> FALSE, raw |-> <<>>]

\* The data files of the model: no file; plain files of every size; files
\* of the other kinds at every third size.
Files ==
  {NoFile}
    \cup {DataFile("plain", n) : n \in 0..MaxRecords}
    \cup {DataFile(kind, n) : kind \in {"dup", "marked", "noid"},
                              n \in {m \in 1..MaxRecords : m % 3 = 1}}

\* The query strings a user types into the address bar.
KV(k, v) == k \o <<"=">> \o v
Amp(a, b) == a \o <<"&">> \o b
QueryPool ==
  { <<>>,
    KV(S_PAGE, <<"0">>),
    KV(S_PAGE, <<"-", "1">>),
    KV(S_PAGE, <<"a", "b", "c">>),
    KV(S_PAGE, <<>>),
    KV(S_PAGE, <<"2">>),
    KV(S_PAGE, <<"+", "3">>),
    KV(S_PAGE, <<"9", "9">>),
    KV(S_PAGE, <<"1", "_", "0">>),
    KV(S_PAGE, <<"2", "_">>),
    Amp(KV(S_PAGE, <<"3">>), KV(S_PAGE, <<"1">>)),
    KV(S_ID, <<>>),
    KV(S_ID, <<"z", "z">>),
    KV(S_ID, <<"r", "1">>),
    Amp(KV(S_ID, <<"z", "z">>), KV(S_PAGE, <<"2">>)),
    Amp(KV(S_ID, <<"z", "z">>), KV(S_PAGE, <<"-", "5">>)),
    Amp(KV(S_ID, <<"r", "1", "1">>), KV(S_PAGE, <<"x">>)),
    Amp(KV(S_ID, <<>>), KV(S_ID, <<"r", "1">>)),
    Amp(KV(S_ID, <<>>), KV(S_PAGE, <<"7">>)) }

\* ----------------------------------------------------------------- state
VARIABLES
  file,          \* opportunities.json on disk: whether it exists, its elements
  url,           \* the query string of the address bar
  view,          \* what the last run drew
  messages,      \* the st.error messages of the last run
  ops,           \* the records the last run loaded
  total_pages,
  selected_id,
  current_page,
  op,            \* the record of the detail view
  page_items,
  cards,         \* the cards of the grid: link and excerpt
  footer,        \* the controls of the pagination footer
  back_button,   \* whether the run drew the "Back to list" button
  nav            \* the navigation that led to this run (history)

vars == <<file, url, view, messages, ops, total_pages, selected_id,
          current_page, op, page_items, cards, footer, back_button, nav>>

\* The screen r of a run of the script on query string q.
Shown(q, r) ==
  /\ url' = q
  /\ view' = r.view
  /\ messages' = r.messages
  /\ ops' = r.ops
  /\ total_pages' = r.total_pages
  /\ selected_id' = r.selected_id
  /\ current_page' = r.current_page
  /\ op' = r.op
  /\ page_items' = r.page_items
  /\ cards' = r.cards
  /\ footer' = r.footer
  /\ back_button' = r.back_button
  /\ UNCHANGED file

\* A fresh run of the script on query string q.
Rendered(q) == Shown(q, Script(file, q))

FirstShown(r) ==
  /\ view = r.view
  /\ messages = r.messages
  /\ ops = r.ops
  /\ total_pages = r.total_pages
  /\ selected_id = r.selected_id
  /\ current_page = r.current_page
  /\ op = r.op
  /\ page_items = r.page_items
  /\ cards = r.cards
  /\ footer = r.footer
  /\ back_button = r.back_button

\* kind: what the user did ("load", "edit", "card", "page", "back"); page,
\* items, target: the page, the page items and the record of the card last
\* selected; p: the page control selected; for "back", from is the view the
\* button was on and after is what had led to that view.
NoNav == [kind |-> "load", after |-> "load", from |-> "none", page |-> 0,
          items |-> <<>>, target |-> NoOp, p |-> 0]

\* The first load of the page, with no query string.
Init ==
  /\ file \in Files
  /\ url = <<>>
  /\ FirstShown(Script(file, <<>>))
  /\ nav = NoNav

\* The user edits the query string in the address bar and loads the page.
EditURL(q) ==
  /\ Rendered(q)
  /\ nav' = [NoNav EXCEPT !.kind = "edit"]

\* The user selects the i-th card of the grid: the browser follows its link.
ClickCard(i) ==
  /\ view = "list"
  /\ i \in 1..Len(cards)
  /\ Rendered(NavQuery(cards[i].href))
  /\ nav' = [NoNav EXCEPT !.kind = "card", !.page = current_page,
                          !.items = page_items, !.target = page_items[i]]

\* The user selects the p-th control of the pagination footer.
ClickPage(p) ==
  /\ view = "list"
  /\ p \in 1..Len(footer)
  /\ Rendered(NavQuery(footer[p].href))
  /\ nav' = [NoNav EXCEPT !.kind = "page", !.p = footer[p].p]

\* The user presses "Back to list": the run with the button pressed sees
\* the same URL, replaces the query parameters and reruns.
Back ==
  /\ back_button
  /\ Rendered(BackQuery(current_page))
  /\ nav' = [nav EXCEPT !.kind = "back", !.after = nav.kind, !.from = view]

Next ==
  \/ \E q \in QueryPool : EditURL(q)
  \/ \E i \in 1..PAGE_SIZE : ClickCard(i)
  \/ \E p \in 1..(TotalPages(MaxRecords) + 1) : ClickPage(p)
  \/ Back

Spec == Init /\ [][Next]_vars

\* ---------------------------------------------------------------- claims
\* Whether a run drew a view (no uncaught exception ended it).
Drawn == view \in {"list", "detail", "notfound"}

\* The `page` values of the URL, as the run reads them.
PageValues == GetAll(ParseQs(url), S_PAGE)
IdValues == GetAll(ParseQs(url), S_ID)

\* C1: whatever `page` value the URL carries (absent, not a number, zero,
\* negative, beyond the last page) and however many records are loaded, the
\* run that resolves it draws a view with 1 <= current_page <= total_pages;
\* a run is ended by an exception only when the data file holds a record
\* without `id`, never because of the `page` value.
C1_PageClamped ==
  /\ Drawn => current_page \in 1..total_pages
  /\ ~Drawn => file.exists /\ \E i \in 1..Len(file.raw) : ~file.raw[i].hasId

\* A page number beyond the last page of a catalog of several pages was
\* requested and the last page is shown.
C1_Witness ==
  /\ nav.kind = "edit"
  /\ PageValues = << <<"9", "9">> >>
  /\ total_pages > 1
  /\ current_page = total_pages

\* The concatenation of the page items of pages p..tp.
RECURSIVE ConcatPages(_, _, _)
ConcatPages(records, p, tp) ==
  IF p > tp THEN <<>>
  ELSE PageItems(records, p) \o ConcatPages(records, p + 1, tp)

\* C3: the page items of pages 1..total_pages, concatenated in order, are
\* the loaded records (same order, nothing twice, nothing left out); the
\* last page holds n mod 9 items, 9 when n is a positive multiple of 9, and
\* none only when n = 0; the grid on the screen holds the records at
\* positions (current_page-1)*9+1 .. of the loaded sequence.
C3_PagesPartitionRecords ==
  Drawn =>
    /\ ConcatPages(ops, 1, total_pages) = ops
    /\ Len(PageItems(ops, total_pages)) =
         (IF Len(ops) = 0 THEN 0
          ELSE IF Len(ops) % PAGE_SIZE = 0 THEN PAGE_SIZE
          ELSE Len(ops) % PAGE_SIZE)
    /\ view = "list" =>
         /\ Len(page_items) =
              Min(PAGE_SIZE, Len(ops) - (current_page - 1) * PAGE_SIZE)
         /\ \A k \in 1..Len(page_items) :
              page_items[k] = ops[(current_page - 1) * PAGE_SIZE + k]

\* The last of several pages is on the screen and holds the remainder.
C3_Witness ==
  /\ view = "list"
  /\ Len(ops) > 2 * PAGE_SIZE
  /\ Len(ops) % PAGE_SIZE # 0
  /\ current_page = total_pages
  /\ Len(page_items) = Len(ops) % PAGE_SIZE

\* C4: total_pages = max(1, ceil(n / 9)): it is the least number of pages
\* of 9 that hold the n records, and 1 when there are none; 9 records give
\* 1 page, 10 records give 2 pages with 9 items on page 1 and 1 on page 2.
C4_TotalPages ==
  Drawn =>
    /\ total_pages >= 1
    /\ total_pages * PAGE_SIZE >= Len(ops)
    /\ total_pages > 1 => (total_pages - 1) * PAGE_SIZE < Len(ops)
    /\ Len(ops) = 0 => total_pages = 1
    /\ Len(ops) = 9 => total_pages = 1
    /\ Len(ops) = 10 =>
         /\ total_pages = 2
         /\ (view = "list" /\ current_page = 1) => Len(page_items) = 9
         /\ (view = "list" /\ current_page = 2) => Len(page_items) = 1

\* Ten records are loaded and page 2 of 2 shows one card.
C4_Witness ==
  /\ Len(ops) = 10
  /\ view = "list"
  /\ total_pages = 2
  /\ current_page = 2
  /\ Len(cards) = 1

\* Whether some loaded record has the identifier sid.
Names(sid) == \E i \in 1..Len(ops) : ops[i].id = sid

\* C7: when the data file is absent the run reports the error message and
\* loads no record; the catalog is empty: total_pages = 1, current_page = 1,
\* and the list view, drawn whenever no identifier is requested, has a grid
\* with no cards and a footer with exactly one page control (page 1); with an
\* identifier the not-found view is drawn.
C7_MissingFileEmptyCatalog ==
  ~file.exists =>
    /\ "Data file not found" \in messages
    /\ ops = <<>>
    /\ total_pages = 1
    /\ current_page = 1
    /\ view \in {"list", "notfound"}
    /\ view = "list" <=> (selected_id = None \/ selected_id = <<>>)
    /\ view = "list" =>
         /\ page_items = <<>>
         /\ cards = <<>>
         /\ Len(footer) = 1
         /\ footer[1].p = 1

\* No data file, and the list view is drawn for a URL asking for page 99.
C7_Witness ==
  /\ ~file.exists
  /\ view = "list"
  /\ PageValues = << <<"9", "9">> >>
  /\ cards = <<>>
  /\ Len(footer) = 1

\* C8: the run after a page control p is selected has the single query
\* parameter page=p and draws the list view on page p; the footer of a list
\* view has one control for each p in 1..total_pages, in order, each linking
\* to page=p alone, and exactly the control of current_page is active.
C8_PageControls ==
  /\ nav.kind = "page" =>
       /\ ParseQs(url) = << <<S_PAGE, ToDec(nav.p)>> >>
       /\ view = "list"
       /\ selected_id = None
       /\ current_page = nav.p
  /\ view = "list" =>
       /\ Len(footer) = total_pages
       /\ \A p \in 1..Len(footer) :
            /\ footer[p].p = p
            /\ ParseQs(NavQuery(footer[p].href)) = << <<S_PAGE, ToDec(p)>> >>
            /\ footer[p].active <=> (p = current_page)
       /\ Cardinality({p \in 1..Len(footer) : footer[p].active}) = 1

\* Page control 2 was selected on another page and page 2 is shown.
C8_Witness ==
  /\ nav.kind = "page"
  /\ nav.p = 2
  /\ view = "list"
  /\ current_page = 2
  /\ footer[2].active
  /\ ~footer[1].active

\* C9: the excerpt of every card is the escaped description, with no
\* ellipsis marker added, when the description has at most 120 characters,
\* and otherwise the escaped first 120 characters of the raw description
\* followed by the marker "...": the cut is made before escaping.
C9_Excerpt ==
  view = "list" =>
    /\ Len(cards) = Len(page_items)
    /\ \A k \in 1..Len(cards) :
         IF Len(page_items[k].description) <= ExcerptLen
         THEN cards[k].short_desc = HtmlEscape(page_items[k].description)
         ELSE cards[k].short_desc =
                HtmlEscape(SubSeq(page_items[k].description, 1, ExcerptLen))
                  \o S_ELLIPSIS

\* The grid holds a card whose description of 121 characters has '<' as its
\* 120th: the excerpt ends with the whole "&lt;" and the marker.
C9_Witness ==
  /\ nav.kind = "edit"
  /\ view = "list"
  /\ \E k \in 1..Len(cards) :
       /\ Len(page_items[k].description) = ExcerptLen + 1
       /\ page_items[k].description[ExcerptLen] = "<"
       /\ Len(cards[k].short_desc) = ExcerptLen + 6
       /\ SubSeq(cards[k].short_desc, ExcerptLen, ExcerptLen + 6)
            = <<"&", "l", "t", ";", ".", ".", ".">>

\* What pressing Back on the not-found view must lead to: the list view, no
\* `id` in the URL, and a `page` value of the URL that is itself a number
\* of 1..total_pages.
BackFromNotFoundOk ==
  (nav.kind = "back" /\ nav.from = "notfound") =>
    /\ view = "list"
    /\ IdValues = <<>>
    /\ selected_id = None
    /\ Len(PageValues) = 1
    /\ ParseInt(PageValues[1]).ok
    /\ ParseInt(PageValues[1]).val \in 1..total_pages
    /\ current_page = ParseInt(PageValues[1]).val

\* C5 as stated: whenever the URL carries an `id` that names no loaded
\* record, the not-found message is shown with a Back button, and Back
\* leads to the list view with `id` absent and a page in 1..total_pages.
C5_AsStated ==
  /\ (Drawn /\ IdValues # <<>> /\ ~Names(IdValues[1])) =>
       /\ view = "notfound"
       /\ "Opportunity not found." \in messages
       /\ back_button
  /\ BackFromNotFoundOk

\* C5, amended: whenever the URL carries a non-empty `id` that names no
\* loaded record, the not-found message is shown with a Back button, and
\* Back leads to the list view with `id` absent and a page in
\* 1..total_pages, whatever `page` value the URL carried.
C5_NotFoundRecovers ==
  /\ (Drawn /\ IdValues # <<>> /\ IdValues[1] # <<>> /\ ~Names(IdValues[1])) =>
       /\ view = "notfound"
       /\ "Opportunity not found." \in messages
       /\ back_button
  /\ (~Drawn /\ IdValues # <<>>) =>
       \E i \in 1..Len(file.raw) : ~file.raw[i].hasId
  /\ BackFromNotFoundOk

\* Back was pressed on the not-found view of a URL typed with an unknown
\* `id` and page=2, in a catalog of several pages; page 2 is shown.
C5_Witness ==
  /\ nav.kind = "back"
  /\ nav.from = "notfound"
  /\ nav.after = "edit"
  /\ total_pages > 1
  /\ view = "list"
  /\ current_page = 2

\* Whether the identifiers of the loaded records are distinct.
UniqueIds ==
  \A i, j \in 1..Len(ops) : ops[i].id = ops[j].id => i = j

\* C2 as stated: selecting the card of record X on the grid of page P sets
\* id=X and page=P, and Back then leads to the list view with `id` absent,
\* on page P, with the page items the grid had when the card was selected.
C2_RoundTrip ==
  /\ nav.kind = "card" =>
       /\ selected_id = nav.target.id
       /\ current_page = nav.page
       /\ back_button
  /\ (nav.kind = "back" /\ nav.after = "card") =>
       /\ view = "list"
       /\ IdValues = <<>>
       /\ current_page = nav.page
       /\ page_items = nav.items

\* C10 as stated: selecting a card of the grid leads to the detail view of
\* a loaded record, never to the not-found message; when the identifiers
\* are distinct the record shown is the record of the card.
C10_CardOpensItsRecord ==
  nav.kind = "card" =>
    /\ view = "detail"
    /\ \E i \in 1..Len(ops) : ops[i] = op
    /\ UniqueIds => op = nav.target

\* C6 as stated: every run, whatever the data file and the URL, ends in a
\* drawn view the user can navigate from: the list view, or the detail or
\* not-found view with its Back button.
C6_NoFatalError ==
  /\ Drawn
  /\ view \in {"detail", "notfound"} => back_button

====
